---- MODULE Spec2Model ----
(***************************************************************************)
(* Model of the tutorial scripts of whi8ram/playground.                    *)
(*                                                                         *)
(* script "06" is 06_1_working_with_orm_related_objects.py: it builds a    *)
(* graph of User and Address objects, adds the root User to a Session,     *)
(* commits, and reads the graph back through the loader strategies.  The   *)
(* statements of the script are the actions; the object graph, the         *)
(* session, the two tables and the SQL echoed by the last call are the     *)
(* state.  The script is generalised over its data only: how many Users    *)
(* and Addresses are built, which of the three linking statements joins    *)
(* them and in which order, which Users are added, which attribute is read *)
(* first.  The order of the script's sections is kept: build, add, commit, *)
(* load.  What a call of the database library does is taken from the call  *)
(* and from what the script says and prints about it at that place.        *)
(*                                                                         *)
(* scripts "02" and "04" are 02_working_with_transactions_and_the_dbapi.py *)
(* and 04_working_with_data.py: sequences of `with` blocks over            *)
(* connections and sessions.                                               *)
(***************************************************************************)
EXTENDS Integers, Sequences, FiniteSets, TLC

\* Bounds of the model: how many User and Address objects the script builds.
MaxUsers == 2
MaxAddrs == 2

\* Python's None, for identifiers, foreign keys and object references.
None == 0

Users == 1..MaxUsers
Addrs == 1..MaxAddrs

VARIABLES
  script,      \* which script runs: "02", "04" or "06"
  pc,          \* section of script 06: "build", "session", "load", "done";
               \* position of scripts 02/04: "top", "in", "done", "failed"
  nUsers,      \* User objects constructed so far (objects 1..nUsers)
  nAddrs,      \* Address objects constructed so far (objects 1..nAddrs)
  user,        \* user[a]: the Address.user attribute of a (a User or None)
  addresses,   \* addresses[u]: the User.addresses list of u
  uid,         \* uid[u]: the User.id attribute
  aid,         \* aid[a]: the Address.id attribute
  user_id,     \* user_id[a]: the Address.user_id attribute
  attached,    \* the objects in the session, in the order they were added
  userRows,    \* table user_account: set of [id, name]
  addrRows,    \* table address: set of [id, user_id]
  rel,         \* rel[u]: load state of u as seen by the session
  held,        \* held[u]: the list u.addresses held when u was last committed
  last,        \* the last call of the script and the SQL it echoed
  blk,         \* scripts 02/04: index of the current `with` block
  step,        \* scripts 02/04: statements of the block executed so far
  open,        \* the connections / sessions acquired and not released
  flagged      \* warnings or errors raised about a statement's joins

vars == <<script, pc, nUsers, nAddrs, user, addresses, uid, aid, user_id,
          attached, userRows, addrRows, rel, held, last,
          blk, step, open, flagged>>

ormVars == <<nUsers, nAddrs, user, addresses, uid, aid, user_id, attached,
             userRows, addrRows, rel, held, flagged>>
coreVars == <<blk, step, open>>

----------------------------------------------------------------------------
\* Helpers on sequences.

Range(s) == {s[i] : i \in 1..Len(s)}

Remove(s, x) == SelectSeq(s, LAMBDA y : y # x)

IndexOf(s, x) == CHOOSE i \in 1..Len(s) : s[i] = x

\* The elements of the set S of integers, in ascending order.
RECURSIVE Sorted(_)
Sorted(S) ==
  IF S = {} THEN <<>>
  ELSE LET m == CHOOSE x \in S : \A y \in S : x <= y
       IN <<m>> \o Sorted(S \ {m})

\* The multiset of the elements of a sequence, as a function element -> count.
Multiset(s) == [x \in Range(s) |-> Cardinality({i \in 1..Len(s) : s[i] = x})]

----------------------------------------------------------------------------
\* SQL statements as echoed by the engine (create_engine(..., echo=True)).

Stmt(kind, table, pk, ids, joins) ==
  [kind |-> kind, table |-> table, pk |-> pk, ids |-> ids, joins |-> joins]

Call(op, arg, sql, result) ==
  [op |-> op, arg |-> arg, sql |-> sql, result |-> result]

NoCall == Call("none", None, <<>>, <<>>)

----------------------------------------------------------------------------
\* Section 1.1 of script 06: building the object graph in memory.

IsAttachedU(u) == <<"U", u>> \in Range(attached)
IsAttachedA(a) == <<"A", a>> \in Range(attached)

\* BackrefSet without the test for the user a already has.
BackrefSetAlways(a, u) ==
  [w \in Users |->
     IF w = u THEN Append(addresses[w], a)
     ELSE IF w = user[a] THEN Remove(addresses[w], a)
     ELSE addresses[w]]

\* The User.addresses lists after `a.user = u`: the back_populates listener
\* takes a out of the list of its former user and appends it to the list of
\* u; assigning the user a already has changes nothing.
BackrefSet(a, u) ==
  IF user[a] = u THEN addresses
  ELSE [w \in Users |->
          IF w = u THEN Append(addresses[w], a)
          ELSE IF w = user[a] THEN Remove(addresses[w], a)
          ELSE addresses[w]]

\* u1 = User(name=..., fullname=...)
NewUser ==
  /\ script = "06" /\ pc = "build"
  /\ nUsers < MaxUsers
  /\ nUsers' = nUsers + 1
  /\ last' = Call("User", nUsers + 1, <<>>, <<>>)
  /\ UNCHANGED <<script, pc, nAddrs, user, addresses, uid, aid, user_id,
                 attached, userRows, addrRows, rel, held,
                 flagged, coreVars>>

\* a1 = Address(email_address=...)
NewAddress ==
  /\ script = "06" /\ pc = "build"
  /\ nAddrs < MaxAddrs
  /\ nAddrs' = nAddrs + 1
  /\ last' = Call("Address", nAddrs + 1, <<>>, <<>>)
  /\ UNCHANGED <<script, pc, nUsers, user, addresses, uid, aid, user_id,
                 attached, userRows, addrRows, rel, held,
                 flagged, coreVars>>

\* u1.addresses.append(a1), for an Address that is not in the list yet: the
\* list gets a, and the back_populates listener sets a.user (taking a out of
\* the list of a former user).
AppendAddress(u, a) ==
  /\ script = "06" /\ pc = "build"
  /\ u \in 1..nUsers /\ a \in 1..nAddrs
  /\ a \notin Range(addresses[u])
  /\ addresses' = BackrefSet(a, u)
  /\ user' = [user EXCEPT ![a] = u]
  /\ last' = Call("append", a, <<>>, <<user[a]>>)
  /\ UNCHANGED <<script, pc, nUsers, nAddrs, uid, aid, user_id, attached,
                 userRows, addrRows, rel, held, flagged,
                 coreVars>>

\* a2 = Address(email_address=..., user=u1): the constructor sets the
\* attribute, which appends the new Address to u1.addresses.
NewAddressWithUser(u) ==
  /\ script = "06" /\ pc = "build"
  /\ u \in 1..nUsers
  /\ nAddrs < MaxAddrs
  /\ nAddrs' = nAddrs + 1
  /\ addresses' = BackrefSet(nAddrs + 1, u)
  /\ user' = [user EXCEPT ![nAddrs + 1] = u]
  /\ last' = Call("Address(user)", nAddrs + 1, <<>>, <<None>>)
  /\ UNCHANGED <<script, pc, nUsers, uid, aid, user_id, attached,
                 userRows, addrRows, rel, held, flagged,
                 coreVars>>

\* a2.user = u1
SetUser(a, u) ==
  /\ script = "06" /\ pc = "build"
  /\ u \in 1..nUsers /\ a \in 1..nAddrs
  /\ addresses' = BackrefSet(a, u)
  /\ user' = [user EXCEPT ![a] = u]
  /\ last' = Call("set_user", a, <<>>, <<user[a]>>)
  /\ UNCHANGED <<script, pc, nUsers, nAddrs, uid, aid, user_id, attached,
                 userRows, addrRows, rel, held, flagged,
                 coreVars>>

----------------------------------------------------------------------------
\* Section 1.2 of script 06: cascading objects into the session.

\* session = Session(engine): no `with`, and the script never closes it.
OpenSession ==
  /\ script = "06" /\ pc = "build"
  /\ nUsers >= 1
  /\ pc' = "session"
  /\ open' = open \cup {"session"}
  /\ last' = Call("Session", None, <<>>, <<>>)
  /\ UNCHANGED <<script, nUsers, nAddrs, user, addresses, uid, aid, user_id,
                 attached, userRows, addrRows, rel, held, flagged, blk, step>>

\* Cascade without the save-update cascade.
CascadeRootOnly(u) == <<<<"U", u>>>>

\* What session.add(u) puts into the session: u, then, by the save-update
\* cascade along User.addresses, the Addresses of its list that are not in
\* the session yet, in list order.
Cascade(u) ==
  <<<<"U", u>>>> \o
  [i \in 1..Len(SelectSeq(addresses[u], LAMBDA a : ~IsAttachedA(a))) |->
     <<"A", SelectSeq(addresses[u], LAMBDA a : ~IsAttachedA(a))[i]>>]

\* session.add(u1)
Add(u) ==
  /\ script = "06" /\ pc = "session"
  /\ u \in 1..nUsers
  /\ ~IsAttachedU(u)
  /\ attached' = attached \o Cascade(u)
  /\ last' = Call("add", u, <<>>, <<>>)
  /\ UNCHANGED <<script, pc, nUsers, nAddrs, user, addresses, uid, aid,
                 user_id, userRows, addrRows, rel, held,
                 flagged, coreVars>>

\* The objects of the session that have no row yet, in the order they were
\* added.
PendingU == SelectSeq(attached, LAMBDA e : e[1] = "U" /\ uid[e[2]] = None)
PendingA == SelectSeq(attached, LAMBDA e : e[1] = "A" /\ aid[e[2]] = None)

\* FlushOrder without the dependency sort.
FlushOrderChildrenFirst == PendingA \o PendingU

\* The order in which the flush of session.commit() inserts the pending
\* objects: the rows that foreign keys point to first, then the rows that
\* hold the foreign keys.
FlushOrder == PendingU \o PendingA

\* The autoincrement primary key each object has after the flush.
NewUid(u) ==
  IF <<"U", u>> \in Range(PendingU)
  THEN Cardinality(userRows) + IndexOf(PendingU, <<"U", u>>)
  ELSE uid[u]

NewAid(a) ==
  IF <<"A", a>> \in Range(PendingA)
  THEN Cardinality(addrRows) + IndexOf(PendingA, <<"A", a>>)
  ELSE aid[a]

\* FlushedFk read from the attribute of the user as it was before the flush.
FlushedFkStale(a) == IF user[a] = None THEN None ELSE uid[user[a]]

\* The user_id an Address is inserted with: the primary key of its user, if
\* the user has one by the time the Address is inserted.
FlushedFk(a) ==
  LET p == user[a] IN
  IF p = None THEN None
  ELSE IF uid[p] # None THEN uid[p]
  ELSE IF /\ <<"U", p>> \in Range(PendingU)
          /\ IndexOf(FlushOrder, <<"U", p>>) < IndexOf(FlushOrder, <<"A", a>>)
       THEN NewUid(p)
       ELSE None

\* The INSERT statements of the flush, in the order they are emitted.
InsertSql ==
  [i \in 1..Len(FlushOrder) |->
     IF FlushOrder[i][1] = "U"
     THEN Stmt("INSERT", "user_account", NewUid(FlushOrder[i][2]), {}, <<>>)
     ELSE Stmt("INSERT", "address", NewAid(FlushOrder[i][2]),
               {FlushedFk(FlushOrder[i][2])}, <<>>)]

\* Expire with expire_on_commit switched off.
ExpireNothing == rel

\* The load state of the Users after a commit: every object of the session
\* is expired (expire_on_commit).
Expire == [u \in Users |-> IF IsAttachedU(u) THEN "stale" ELSE rel[u]]

\* session.commit(): flush the pending objects, commit the transaction,
\* expire every object of the session.  The script adds the root User before
\* it commits.
Commit ==
  /\ script = "06" /\ pc \in {"session", "load"}
  /\ attached # <<>>
  /\ pc' = "load"
  /\ uid' = [u \in Users |-> NewUid(u)]
  /\ aid' = [a \in Addrs |-> NewAid(a)]
  /\ user_id' = [a \in Addrs |->
                   IF <<"A", a>> \in Range(PendingA) THEN FlushedFk(a)
                   ELSE user_id[a]]
  /\ userRows' = userRows \cup
       {[id |-> NewUid(e[2]), name |-> e[2]] : e \in Range(PendingU)}
  /\ addrRows' = addrRows \cup
       {[id |-> NewAid(e[2]), user_id |-> FlushedFk(e[2])] : e \in Range(PendingA)}
  /\ held' = [u \in Users |->
                IF IsAttachedU(u) /\ rel[u] \in {"new", "loaded"}
                THEN addresses[u] ELSE held[u]]
  /\ rel' = Expire
  /\ addresses' = [u \in Users |-> IF IsAttachedU(u) THEN <<>> ELSE addresses[u]]
  /\ user' = [a \in Addrs |-> IF IsAttachedA(a) THEN None ELSE user[a]]
  /\ last' = Call("commit", None, InsertSql, <<>>)
  /\ UNCHANGED <<script, nUsers, nAddrs, attached, flagged,
                 coreVars>>

----------------------------------------------------------------------------
\* Sections 1.3 and 2 of script 06: loading relationships.

\* The identity map: the object of the session that a primary key stands for.
ObjU(id) == CHOOSE u \in Users : uid[u] = id
ObjA(id) == CHOOSE a \in Addrs : aid[a] = id

UserIds == {r.id : r \in userRows}

\* AddressesOf without the WHERE clause on user_id.
AddressesOfAll(ids) ==
  LET found == Sorted({r.id : r \in addrRows})
  IN [i \in 1..Len(found) |-> ObjA(found[i])]

\* The rows of table address whose user_id is in ids, as the Address objects
\* of the identity map, in primary-key order.
AddressesOf(ids) ==
  LET found == Sorted({r.id : r \in {x \in addrRows : x.user_id \in ids}})
  IN [i \in 1..Len(found) |-> ObjA(found[i])]

\* The SELECT that refreshes an expired User.
RefreshSql(u) == <<Stmt("SELECT", "user_account", uid[u], {}, <<>>)>>

\* The SELECT of the lazy loader for the addresses of one User.
LazySql(u) == <<Stmt("SELECT", "address", None, {uid[u]}, <<>>)>>

\* SelectInSql with one SELECT of addresses for each User loaded.
SelectInSqlPerParent ==
  <<Stmt("SELECT", "user_account", None, {}, <<>>)>> \o
  [i \in 1..Len(Sorted(UserIds)) |->
     Stmt("SELECT", "address", None, {Sorted(UserIds)[i]}, <<>>)]

\* The SELECTs of select(User).options(selectinload(User.addresses)): the
\* Users, then one SELECT ... WHERE address.user_id IN (...) for the
\* addresses of all the Users loaded.
SelectInSql ==
  <<Stmt("SELECT", "user_account", None, {}, <<>>)>> \o
  <<Stmt("SELECT", "address", None, UserIds, <<>>)>>

\* print(u1.id): an expired User is refreshed by a SELECT of its row.
AccessId(u) ==
  /\ script = "06" /\ pc = "load"
  /\ IsAttachedU(u)
  /\ rel' = [rel EXCEPT ![u] = IF @ = "stale" THEN "refreshed" ELSE @]
  /\ last' = Call("id", u, IF rel[u] = "stale" THEN RefreshSql(u) ELSE <<>>,
                  <<uid[u]>>)
  /\ UNCHANGED <<script, pc, nUsers, nAddrs, user, addresses, uid, aid,
                 user_id, attached, userRows, addrRows, held,
                 flagged, coreVars>>

\* print(u1.addresses): a list that is not loaded is fetched by the lazy
\* loader with one SELECT for this User; a loaded list is returned as it is.
AccessAddresses(u) ==
  /\ script = "06" /\ pc = "load"
  /\ IsAttachedU(u)
  /\ rel' = [rel EXCEPT ![u] = "loaded"]
  /\ addresses' = [addresses EXCEPT ![u] =
                     IF rel[u] = "loaded" THEN @ ELSE AddressesOf({uid[u]})]
  /\ last' = Call("addresses", u,
                  (IF rel[u] = "stale" THEN RefreshSql(u) ELSE <<>>) \o
                  (IF rel[u] = "loaded" THEN <<>> ELSE LazySql(u)),
                  addresses'[u])
  /\ UNCHANGED <<script, pc, nUsers, nAddrs, user, uid, aid, user_id,
                 attached, userRows, addrRows, held, flagged,
                 coreVars>>

\* The name the WHERE clauses of section 2 compare User.name to: "pkrabs",
\* the name of the first User the script builds (a User's name is modelled by
\* the number of the object).
Pkrabs == 1

\* The four SELECT constructs of section 2.
StmtSelectIn ==
  [entity |-> "User", join |-> FALSE, where |-> None, option |-> "selectinload"]
StmtJoined ==
  [entity |-> "Address", join |-> FALSE, where |-> None,
   option |-> "joinedload_inner"]
StmtContains ==
  [entity |-> "Address", join |-> TRUE, where |-> Pkrabs,
   option |-> "contains_eager"]
StmtRedundant ==
  [entity |-> "Address", join |-> TRUE, where |-> Pkrabs,
   option |-> "joinedload"]

\* CompileJoins leaving out the join of joinedload when the statement already
\* has one written with .join(Address.user).
CompileJoinsOnce(s) ==
  IF s.join THEN <<"JOIN">>
  ELSE IF s.option = "joinedload_inner" THEN <<"JOIN">>
  ELSE IF s.option = "joinedload" THEN <<"LEFT OUTER JOIN">>
  ELSE <<>>

\* The joins to user_account in the SQL of a statement: the one written with
\* .join(Address.user), then the one joinedload(Address.user) adds on its
\* own (an inner join with innerjoin=True, else a left outer join).
\* contains_eager adds none.
CompileJoins(s) ==
  (IF s.join THEN <<"JOIN">> ELSE <<>>) \o
  (IF s.option = "joinedload_inner" THEN <<"JOIN">>
   ELSE IF s.option = "joinedload" THEN <<"LEFT OUTER JOIN">>
   ELSE <<>>)

\* The rows a SELECT of Address returns, as pairs <<Address, its User>> in
\* order of Address.id: an inner join keeps the rows that have a user row,
\* the WHERE clause those whose user has the name.
AddressRows(s) ==
  LET keep == {r \in addrRows :
                 /\ "JOIN" \in Range(CompileJoins(s)) => r.user_id \in UserIds
                 /\ s.where # None =>
                      \E w \in userRows : w.id = r.user_id /\ w.name = s.where}
      found == Sorted({r.id : r \in keep})
      fk(i) == (CHOOSE r \in keep : r.id = i).user_id
  IN [i \in 1..Len(found) |->
        <<ObjA(found[i]),
          IF fk(found[i]) \in UserIds THEN ObjU(fk(found[i])) ELSE None>>]

\* for user_obj in session.execute(select(User).options(selectinload(...))):
\* every User row is loaded, and the lists that are not loaded are filled
\* from the one follow-up SELECT.
ExecSelectIn ==
  /\ script = "06" /\ pc = "load"
  /\ rel' = [u \in Users |-> IF uid[u] \in UserIds THEN "loaded" ELSE rel[u]]
  /\ addresses' = [u \in Users |->
                     IF uid[u] \in UserIds /\ rel[u] # "loaded"
                     THEN AddressesOf({uid[u]}) ELSE addresses[u]]
  /\ last' = Call("selectinload", None, SelectInSql,
                  [i \in 1..Len(Sorted(UserIds)) |-> ObjU(Sorted(UserIds)[i])])
  /\ UNCHANGED <<script, pc, nUsers, nAddrs, user, uid, aid, user_id,
                 attached, userRows, addrRows, held, flagged,
                 coreVars>>

\* Executing a SELECT of Address whose option loads Address.user from the
\* joined columns: one statement; each row read in the loop is an Address
\* with its User (row.Address.user), and the Users of the joined rows are
\* refreshed from them.
ExecAddressStmt(op, s) ==
  /\ script = "06" /\ pc = "load"
  /\ rel' = [u \in Users |->
               IF rel[u] = "stale" /\ \E p \in Range(AddressRows(s)) : p[2] = u
               THEN "refreshed" ELSE rel[u]]
  /\ last' = Call(op, s.where,
                  <<Stmt("SELECT", "address", None, {}, CompileJoins(s))>>,
                  AddressRows(s))
  /\ UNCHANGED <<script, pc, nUsers, nAddrs, user, addresses, uid, aid,
                 user_id, attached, userRows, addrRows, held, flagged,
                 coreVars>>

\* select(Address).options(joinedload(Address.user, innerjoin=True))
ExecJoined == ExecAddressStmt("joinedload", StmtJoined)

\* select(Address).join(Address.user).where(User.name == "pkrabs")
\*   .options(contains_eager(Address.user))
ExecContains == ExecAddressStmt("contains_eager", StmtContains)

\* The same statement with joinedload(Address.user) in place of
\* contains_eager: the script prints it and does not execute it.
PrintRedundant ==
  /\ script = "06" /\ pc = "load"
  /\ last' = Call("print", Pkrabs, <<>>, CompileJoins(StmtRedundant))
  /\ UNCHANGED <<script, pc, ormVars, coreVars>>

\* The end of script 06.
Finish ==
  /\ script = "06" /\ pc = "load"
  /\ pc' = "done"
  /\ last' = Call("exit", None, <<>>, <<>>)
  /\ UNCHANGED <<script, ormVars, coreVars>>

----------------------------------------------------------------------------
\* Scripts 02 and 04: `with` blocks over connections and sessions.

\* The `with` blocks of script 02, in order: what is acquired, the line of the
\* `with`, the statements executed in the block, whether the block ends with
\* an explicit commit().
Blocks02 ==
  << [kind |-> "connect", line |-> 10, execs |-> 1, commit |-> FALSE],
     [kind |-> "connect", line |-> 17, execs |-> 2, commit |-> TRUE],
     [kind |-> "begin",   line |-> 26, execs |-> 1, commit |-> FALSE],
     [kind |-> "connect", line |-> 35, execs |-> 1, commit |-> FALSE],
     [kind |-> "connect", line |-> 41, execs |-> 1, commit |-> FALSE],
     [kind |-> "connect", line |-> 49, execs |-> 1, commit |-> TRUE],
     [kind |-> "session", line |-> 65, execs |-> 1, commit |-> FALSE],
     [kind |-> "session", line |-> 71, execs |-> 1, commit |-> TRUE] >>

\* The `with` blocks of script 04.
Blocks04 ==
  << [kind |-> "connect", line |-> 55, execs |-> 1, commit |-> TRUE],
     [kind |-> "connect", line |-> 73, execs |-> 1, commit |-> TRUE],
     [kind |-> "connect", line |-> 91, execs |-> 1, commit |-> TRUE] >>

Blocks == IF script = "02" THEN Blocks02 ELSE Blocks04

\* The calls made inside the current block: its execute()s and its commit().
BlockLen == Blocks[blk].execs + (IF Blocks[blk].commit THEN 1 ELSE 0)

\* What is still acquired after the `with` block over handle h is left: the
\* context manager releases h on every way out of the block.
WithExit(h) == open \ {h}

\* with engine.connect() as conn: / with engine.begin() as conn: /
\* with Session(engine) as session:
Enter ==
  /\ script \in {"02", "04"} /\ pc = "top"
  /\ blk <= Len(Blocks)
  /\ pc' = "in"
  /\ step' = 0
  /\ open' = open \cup {Blocks[blk].line}
  /\ last' = Call(Blocks[blk].kind, Blocks[blk].line, <<>>, <<>>)
  /\ UNCHANGED <<script, ormVars, blk>>

\* conn.execute(...) / session.execute(...) / conn.commit() returning.
Exec ==
  /\ script \in {"02", "04"} /\ pc = "in"
  /\ step < BlockLen
  /\ step' = step + 1
  /\ last' = Call(IF step < Blocks[blk].execs THEN "execute" ELSE "commit",
                  Blocks[blk].line, <<>>, <<>>)
  /\ UNCHANGED <<script, pc, ormVars, blk, open>>

\* A call inside the block raising: the block is left through the context
\* manager and the script ends with the exception.
Raise ==
  /\ script \in {"02", "04"} /\ pc = "in"
  /\ step < BlockLen
  /\ pc' = "failed"
  /\ open' = WithExit(Blocks[blk].line)
  /\ last' = Call("raise", Blocks[blk].line, <<>>, <<>>)
  /\ UNCHANGED <<script, ormVars, blk, step>>

\* The end of the block.
Exit ==
  /\ script \in {"02", "04"} /\ pc = "in"
  /\ step = BlockLen
  /\ pc' = "top"
  /\ blk' = blk + 1
  /\ open' = WithExit(Blocks[blk].line)
  /\ last' = Call("exit_with", Blocks[blk].line, <<>>, <<>>)
  /\ UNCHANGED <<script, ormVars, step>>

\* The end of script 02 / 04.
End ==
  /\ script \in {"02", "04"} /\ pc = "top"
  /\ blk > Len(Blocks)
  /\ pc' = "done"
  /\ last' = Call("exit", None, <<>>, <<>>)
  /\ UNCHANGED <<script, ormVars, coreVars>>

----------------------------------------------------------------------------

Init ==
  /\ script \in {"02", "04", "06"}
  /\ pc = IF script = "06" THEN "build" ELSE "top"
  /\ nUsers = 0
  /\ nAddrs = 0
  /\ user = [a \in Addrs |-> None]
  /\ addresses = [u \in Users |-> <<>>]
  /\ uid = [u \in Users |-> None]
  /\ aid = [a \in Addrs |-> None]
  /\ user_id = [a \in Addrs |-> None]
  /\ attached = <<>>
  /\ userRows = {}
  /\ addrRows = {}
  /\ rel = [u \in Users |-> "new"]
  /\ held = [u \in Users |-> <<>>]
  /\ last = NoCall
  /\ blk = 1
  /\ step = 0
  /\ open = {}
  /\ flagged = FALSE

Next ==
  \/ NewUser
  \/ NewAddress
  \/ \E u \in Users, a \in Addrs : AppendAddress(u, a)
  \/ \E u \in Users : NewAddressWithUser(u)
  \/ \E u \in Users, a \in Addrs : SetUser(a, u)
  \/ OpenSession
  \/ \E u \in Users : Add(u)
  \/ Commit
  \/ \E u \in Users : AccessId(u)
  \/ \E u \in Users : AccessAddresses(u)
  \/ ExecSelectIn
  \/ ExecJoined
  \/ ExecContains
  \/ PrintRedundant
  \/ Finish
  \/ Enter
  \/ Exec
  \/ Raise
  \/ Exit
  \/ End

Spec == Init /\ [][Next]_vars

----------------------------------------------------------------------------
\* Properties.

C1_KeysAfterCommit ==
  /\ pc \in {"build", "session"} =>
       /\ \A u \in Users : uid[u] = None
       /\ \A a \in Addrs : aid[a] = None /\ user_id[a] = None
  /\ pc \in {"load", "done"} =>
       /\ \A u \in Users : IsAttachedU(u) <=> uid[u] # None
       /\ \A a \in Addrs : IsAttachedA(a) <=> aid[a] # None
       /\ \A u \in Users : \A a \in Range(held[u]) :
            /\ IsAttachedU(u)
            /\ user_id[a] # None
            /\ user_id[a] = uid[u]
            /\ [id |-> aid[a], user_id |-> uid[u]] \in addrRows
            /\ \E r \in userRows : r.id = uid[u]

\* A commit has inserted two Users and an Address of the User inserted second.
C1_Witness ==
  /\ last.op = "commit"
  /\ \E u \in Users : uid[u] = 2 /\ held[u] # <<>>

\* C3: in the SQL of one commit, the INSERT of an Address comes after the
\* INSERT of the user_account row its user_id refers to.
C3_ParentInsertFirst ==
  last.op = "commit" =>
    \A i \in 1..Len(last.sql) :
      last.sql[i].table = "address" =>
        \A f \in last.sql[i].ids :
          \E j \in 1..(i - 1) :
            /\ last.sql[j].kind = "INSERT"
            /\ last.sql[j].table = "user_account"
            /\ last.sql[j].pk = f

\* A commit inserted an Address of the first User built, and that User was
\* added to the session after the second one (its identifier is 2).
C3_Witness ==
  /\ last.op = "commit"
  /\ \E i \in 1..Len(last.sql) :
       /\ last.sql[i].table = "address"
       /\ last.sql[i].ids = {2}
       /\ ObjU(2) = 1

\* The SELECTs on table address among the statements sql.
AddressSelects(sql) ==
  SelectSeq(sql, LAMBDA q : q.kind = "SELECT" /\ q.table = "address")

\* C9: a commit makes the addresses of every User of the session stale; an
\* access to a list that is not loaded loads it with exactly one SELECT on
\* address, an access to a loaded list emits no SQL, and a loaded list stays
\* loaded until the next commit.
C9_StaleThenLoadedOnce ==
  [][/\ last'.op = "commit" =>
          \A u \in Users : IsAttachedU(u) => rel'[u] = "stale"
     /\ \A u \in Users :
          (last'.op = "addresses" /\ last'.arg = u) =>
             /\ rel'[u] = "loaded"
             /\ Len(AddressSelects(last'.sql)) =
                  (IF rel[u] = "loaded" THEN 0 ELSE 1)
             /\ rel[u] = "loaded" => last'.sql = <<>>
     /\ \A u \in Users :
          (rel[u] = "loaded" /\ last'.op # "commit") => rel'[u] = "loaded"
    ]_vars

\* The first access to the addresses of a User after a commit: the list is
\* loaded with one SELECT on address, while the list of another User that
\* had Addresses is still stale.
C9_Witness ==
  /\ last.op = "addresses"
  /\ Len(AddressSelects(last.sql)) = 1
  /\ rel[last.arg] = "loaded"
  /\ last.result # <<>>
  /\ \E u \in Users : u # last.arg /\ rel[u] = "stale" /\ held[u] # <<>>

\* C5: select(User) with selectinload emits, after the SELECT of the Users,
\* exactly one SELECT on address, for the identifiers of all the Users loaded,
\* and leaves the list of each of them loaded, so that reading it emits no
\* SQL; without the option, reading the list of a User that is not loaded
\* emits one SELECT on address for that User alone, one per User.
C5_OneFetchForAllParents ==
  [][/\ last'.op = "selectinload" =>
          /\ Len(last'.result) = Cardinality(UserIds)
          /\ AddressSelects(last'.sql) =
               <<Stmt("SELECT", "address", None, UserIds, <<>>)>>
          /\ \A u \in Range(last'.result) : rel'[u] = "loaded"
     /\ \A u \in Users :
          (last'.op = "addresses" /\ last'.arg = u) =>
             AddressSelects(last'.sql) =
               (IF rel[u] = "loaded" THEN <<>>
                ELSE <<Stmt("SELECT", "address", None, {uid[u]}, <<>>)>>)
    ]_vars

\* select(User) with selectinload has loaded two Users, each with an Address.
C5_Witness ==
  /\ last.op = "selectinload"
  /\ Len(last.result) = 2
  /\ \A u \in Range(last.result) : addresses[u] # <<>>

\* The Addresses that the rows of a SELECT of Address give to User u.
ChildrenIn(rows, u) ==
  LET mine == SelectSeq(rows, LAMBDA p : p[2] = u)
  IN [i \in 1..Len(mine) |-> mine[i][1]]

JoinsOfLast ==
  IF last.op = "print" THEN last.result
  ELSE IF last.op \in {"joinedload", "contains_eager"} THEN last.sql[1].joins
  ELSE <<>>

\* C6 as claimed: a statement with two joins for the edge Address.user is
\* never produced without being flagged.
C6_RedundantJoinFlagged ==
  Len(JoinsOfLast) >= 2 => flagged

\* C6 as amended: the statement with .join(Address.user) and
\* joinedload(Address.user) compiles to two joins for the edge, the explicit
\* JOIN and a LEFT OUTER JOIN, and nothing flags it; the script only prints
\* it, and the statements it executes have one join for the edge.
C6_RedundantJoinSilent ==
  /\ ~flagged
  /\ last.op = "print" => last.result = <<"JOIN", "LEFT OUTER JOIN">>
  /\ last.op \in {"joinedload", "contains_eager"} => JoinsOfLast = <<"JOIN">>

\* The statement with both joins has been printed.
C6_Witness ==
  /\ last.op = "print"
  /\ Len(last.result) = 2

\* C8 as claimed: when a script has ended, by its last line or by an
\* exception, nothing it acquired is still open.
C8_AllReleased ==
  pc \in {"done", "failed"} => open = {}

====
